---- MODULE Spec2Model ----
(***************************************************************************)
(* Model of the /infer pipeline of kaggle/kaggle_medgemma_server.py:       *)
(* output extraction (_clean_json_block), JSON decoding, triage            *)
(* normalisation, the keyword fallback (_heuristic_fallback) and the       *)
(* orchestrating handler (infer), together with model loading              *)
(* (_load_model).                                                          *)
(*                                                                         *)
(* Representation of Python str: a sequence of pieces.  A piece is one     *)
(* character ("a", "{", "\n") wherever the code looks inside the string    *)
(* (lower, upper, substring search, regular expressions, list(str)).  A    *)
(* literal of the source that the code only passes along is one piece      *)
(* holding the whole literal (Lit).                                        *)
(***************************************************************************)
EXTENDS Naturals, Sequences, FiniteSets, TLC

VARIABLES
    MODEL_STATE,    \* the MODEL_STATE dict: loaded, error, model_name
    PROCESSOR,      \* "None" or "set"
    MODEL,          \* "None" or "set"
    loadAttempted,  \* _load_model has run (it runs once, before serving)
    pydanticV2,     \* installed pydantic major version is 2 (strict str)
    pc,             \* request lifecycle: "idle", "received", "responded"
    payload,        \* the InferRequest being handled
    generated,      \* what the model collaborators did for this request
    prompt,         \* the prompt built for this request
    generateCalls,  \* calls of _run_medgemma made for this request
    parsed,         \* what json.loads made of the extracted text
    maxTokens,      \* max_tokens passed to _run_medgemma
    returned,       \* "none", "InferResponse" or "dict"
    response,       \* the InferResponse infer returned
    mapping,        \* the dict infer returned (non-triage tasks)
    raised,         \* an exception left infer
    arg,            \* input of a directly applied function
    result          \* its output

vars == <<MODEL_STATE, PROCESSOR, MODEL, loadAttempted, pydanticV2, pc,
          payload, generated, prompt, generateCalls, parsed, maxTokens,
          returned, response, mapping, raised, arg, result>>

(***************************************************************************)
(* Bounds of the model.                                                    *)
(***************************************************************************)
\* symptom texts are concatenations of at most MaxFrags fragments
MaxFrags == 2
\* a generated JSON object has at most MaxMembers members
MaxMembers == 2
\* prose after a closing code fence has at most MaxProse characters
MaxProse == 3
\* an arbitrary raw text has at most MaxRaw characters
MaxRaw == 4

(***************************************************************************)
(* Python str helpers.                                                     *)
(***************************************************************************)
Lit(s) == <<s>>

LowerMap ==
    "A" :> "a" @@ "B" :> "b" @@ "C" :> "c" @@ "D" :> "d" @@ "E" :> "e" @@
    "F" :> "f" @@ "G" :> "g" @@ "H" :> "h" @@ "I" :> "i" @@ "J" :> "j" @@
    "K" :> "k" @@ "L" :> "l" @@ "M" :> "m" @@ "N" :> "n" @@ "O" :> "o" @@
    "P" :> "p" @@ "Q" :> "q" @@ "R" :> "r" @@ "S" :> "s" @@ "T" :> "t" @@
    "U" :> "u" @@ "V" :> "v" @@ "W" :> "w" @@ "X" :> "x" @@ "Y" :> "y" @@
    "Z" :> "z"

LowerLetters == {LowerMap[u] : u \in DOMAIN LowerMap}

LowerChar(c) == IF c \in DOMAIN LowerMap THEN LowerMap[c] ELSE c

UpperChar(c) ==
    IF c \in LowerLetters
    THEN CHOOSE u \in DOMAIN LowerMap : LowerMap[u] = c
    ELSE c

\* str.lower()
Lower(s) == [i \in 1..Len(s) |-> LowerChar(s[i])]

\* str.upper()
Upper(s) == [i \in 1..Len(s) |-> UpperChar(s[i])]

\* t in s
Contains(s, t) ==
    \E i \in 1..(Len(s) + 1) :
        /\ i + Len(t) - 1 <= Len(s)
        /\ SubSeq(s, i, i + Len(t) - 1) = t

HasPrefix(s, p) == Len(s) >= Len(p) /\ SubSeq(s, 1, Len(p)) = p

HasSuffix(s, p) ==
    Len(s) >= Len(p) /\ SubSeq(s, Len(s) - Len(p) + 1, Len(s)) = p

IsSpace(c) == c \in {" ", "\n", "\t", "\r"}

SetMin(S) == CHOOSE x \in S : \A y \in S : x <= y

SetMax(S) == CHOOSE x \in S : \A y \in S : x >= y

\* str.strip()
Strip(s) ==
    LET keep == {i \in 1..Len(s) : ~IsSpace(s[i])}
    IN  IF keep = {} THEN <<>> ELSE SubSeq(s, SetMin(keep), SetMax(keep))

(***************************************************************************)
(* Module constants.                                                       *)
(***************************************************************************)
\* MODEL_ID, with MEDGEMMA_MODEL_ID unset
MODEL_ID == Lit("google/medgemma-4b-it")

RED == <<"R","E","D">>

YELLOW == <<"Y","E","L","L","O","W">>

GREEN == <<"G","R","E","E","N">>

LOW == <<"L","O","W">>

MEDIUM == <<"M","E","D","I","U","M">>

HIGH == <<"H","I","G","H">>

DISCLAIMER == Lit("This is not a diagnosis. Seek professional medical care.")

KAGGLE_HEURISTIC == Lit("kaggle-heuristic")

KAGGLE_MEDGEMMA == Lit("kaggle-medgemma")

\* class InferResponse: the ten fields
InferResponse(riskTier, referralRecommended, recommendedNextSteps, watchOuts, dangerSigns, uncertainty, disclaimer, reasoning, model, source) ==
    [riskTier |-> riskTier,
     referralRecommended |-> referralRecommended,
     recommendedNextSteps |-> recommendedNextSteps,
     watchOuts |-> watchOuts,
     dangerSigns |-> dangerSigns,
     uncertainty |-> uncertainty,
     disclaimer |-> disclaimer,
     reasoning |-> reasoning,
     model |-> model,
     source |-> source]

(***************************************************************************)
(* _clean_json_block                                                       *)
(***************************************************************************)
\* the backquote and apostrophe characters (the names stand for the one
\* character each)
BQ == "BACKQUOTE"

APOS == "APOSTROPHE"

\* three backquotes: a code fence marker
FENCE == <<BQ, BQ, BQ>>

\* re.sub(r"^FENCE(?:json)?", "", text, flags=re.IGNORECASE)
SubOpenFence(text) ==
    IF ~HasPrefix(text, FENCE) THEN text
    ELSE LET rest == SubSeq(text, 4, Len(text))
         IN  IF HasPrefix(Lower(rest), <<"j","s","o","n">>)
             THEN SubSeq(rest, 5, Len(rest))
             ELSE rest

\* re.sub(r"FENCE$", "", text), on a text without trailing whitespace
SubCloseFence(text) ==
    IF HasSuffix(text, FENCE) THEN SubSeq(text, 1, Len(text) - 3) ELSE text

\* the text the brace search runs on
FenceStripped(text) == Strip(SubCloseFence(Strip(SubOpenFence(Strip(text)))))

\* faulty variant: the search stops at the first closing brace (a non-greedy *?)
SearchBraces_Shortest(text) ==
    LET starts == {i \in 1..Len(text) :
                      /\ text[i] = "{"
                      /\ \E j \in (i + 1)..Len(text) : text[j] = "}"}
    IN  IF starts = {} THEN [found |-> FALSE, group |-> <<>>]
        ELSE LET i == SetMin(starts)
                 j == SetMin({k \in (i + 1)..Len(text) : text[k] = "}"})
             IN  [found |-> TRUE, group |-> SubSeq(text, i, j)]

\* re.search(r"\{[\s\S]*\}", text): leftmost start, longest match
SearchBraces(text) ==
    LET starts == {i \in 1..Len(text) :
                      /\ text[i] = "{"
                      /\ \E j \in (i + 1)..Len(text) : text[j] = "}"}
    IN  IF starts = {} THEN [found |-> FALSE, group |-> <<>>]
        ELSE LET i == SetMin(starts)
                 j == SetMax({k \in (i + 1)..Len(text) : text[k] = "}"})
             IN  [found |-> TRUE, group |-> SubSeq(text, i, j)]

clean_json_block(text) ==
    LET t == FenceStripped(text)
        m == SearchBraces(t)
    IN  IF m.found THEN m.group ELSE t

(***************************************************************************)
(* _heuristic_fallback                                                     *)
(***************************************************************************)
red_terms ==
    << <<"c","h","e","s","t"," ","p","a","i","n">>,
       <<"c","a","n","n","o","t"," ","b","r","e","a","t","h","e">>,
       <<"c","a","n",APOS,"t"," ","b","r","e","a","t","h","e">>,
       <<"u","n","c","o","n","s","c","i","o","u","s">>,
       <<"s","e","i","z","u","r","e">>,
       <<"c","o","n","v","u","l","s","i","o","n">> >>

yellow_terms ==
    << <<"f","e","v","e","r">>,
       <<"v","o","m","i","t">>,
       <<"v","o","m","i","t","i","n","g">>,
       <<"p","a","i","n">>,
       <<"c","o","u","g","h">>,
       <<"w","e","a","k","n","e","s","s">> >>

\* any(t in s for t in terms)
AnyTermIn(terms, s) == \E i \in DOMAIN terms : Contains(s, terms[i])

FallbackRed ==
    InferResponse(RED, TRUE,
        << Lit("Seek emergency care immediately.") >>,
        << Lit("Breathing difficulty"), Lit("Loss of consciousness") >>,
        << Lit("Critical symptom pattern") >>,
        LOW, DISCLAIMER,
        Lit("Heuristic detected emergency red-flag symptoms."),
        MODEL_ID, KAGGLE_HEURISTIC)

FallbackYellow ==
    InferResponse(YELLOW, TRUE,
        << Lit("Visit a clinic within 24 hours."),
           Lit("Monitor symptoms closely.") >>,
        << Lit("Worsening fever"), Lit("Persistent vomiting"),
           Lit("New danger signs") >>,
        <<>>,
        MEDIUM, DISCLAIMER,
        Lit("Heuristic detected moderate-risk symptoms."),
        MODEL_ID, KAGGLE_HEURISTIC)

FallbackGreen ==
    InferResponse(GREEN, FALSE,
        << Lit("Home care and monitor symptoms.") >>,
        << Lit("If symptoms worsen, seek care promptly.") >>,
        <<>>,
        MEDIUM, DISCLAIMER,
        Lit("No high-risk symptom terms detected."),
        MODEL_ID, KAGGLE_HEURISTIC)

\* faulty variant: the YELLOW test comes first
heuristic_fallback_YellowFirst(symptoms_text) ==
    LET s == Lower(symptoms_text)
        red == AnyTermIn(red_terms, s)
        yellow == AnyTermIn(yellow_terms, s)
    IN  IF yellow THEN FallbackYellow
        ELSE IF red THEN FallbackRed
        ELSE FallbackGreen

heuristic_fallback(symptoms_text) ==
    LET s == Lower(symptoms_text)
        red == AnyTermIn(red_terms, s)
        yellow == AnyTermIn(yellow_terms, s)
    IN  IF red THEN FallbackRed
        ELSE IF yellow THEN FallbackYellow
        ELSE FallbackGreen

(***************************************************************************)
(* Python values as json.loads produces them.  Every value has the same    *)
(* shape; t names the Python type ("str", "NoneType", "bool", "int",       *)
(* "list") and the other fields hold the value of that type.               *)
(***************************************************************************)
StrV(s) == [t |-> "str", s |-> s, b |-> FALSE, n |-> 0, items |-> <<>>]

NoneV == [t |-> "NoneType", s |-> <<>>, b |-> FALSE, n |-> 0, items |-> <<>>]

BoolV(b) == [t |-> "bool", s |-> <<>>, b |-> b, n |-> 0, items |-> <<>>]

IntV(n) == [t |-> "int", s |-> <<>>, b |-> FALSE, n |-> n, items |-> <<>>]

ListV(items) ==
    [t |-> "list", s |-> <<>>, b |-> FALSE, n |-> 0, items |-> items]

Digits == <<"0","1","2","3","4","5","6","7","8","9">>

RECURSIVE IntDigits(_)
IntDigits(n) ==
    IF n < 10 THEN <<Digits[n + 1]>>
    ELSE IntDigits(n \div 10) \o <<Digits[(n % 10) + 1]>>

\* str(v) of a value that is not a list
ScalarStr(v) ==
    CASE v.t = "str" -> v.s
      [] v.t = "NoneType" -> <<"N","o","n","e">>
      [] v.t = "bool" -> IF v.b THEN <<"T","r","u","e">>
                         ELSE <<"F","a","l","s","e">>
      [] v.t = "int" -> IntDigits(v.n)

\* repr(v) of a list item
ItemRepr(v) ==
    IF v.t = "str" THEN <<APOS>> \o v.s \o <<APOS>> ELSE ScalarStr(v)

RECURSIVE JoinRepr(_)
JoinRepr(items) ==
    IF items = <<>> THEN <<>>
    ELSE IF Len(items) = 1 THEN ItemRepr(items[1])
    ELSE ItemRepr(items[1]) \o <<",", " ">> \o JoinRepr(Tail(items))

\* str(v)
PyStr(v) ==
    IF v.t = "list" THEN <<"[">> \o JoinRepr(v.items) \o <<"]">>
    ELSE ScalarStr(v)

\* bool(v)
PyBool(v) ==
    CASE v.t = "str" -> v.s # <<>>
      [] v.t = "NoneType" -> FALSE
      [] v.t = "bool" -> v.b
      [] v.t = "int" -> v.n # 0
      [] v.t = "list" -> v.items # <<>>

\* list(v): a list is copied, a str gives its characters, anything else
\* raises TypeError
PyList(v) ==
    CASE v.t = "list" -> [ok |-> TRUE, items |-> v.items]
      [] v.t = "str" ->
            [ok |-> TRUE, items |-> [i \in 1..Len(v.s) |-> StrV(<<v.s[i]>>)]]
      [] OTHER -> [ok |-> FALSE, items |-> <<>>]

\* dict.get(key, default)
Get(data, key, default) == IF key \in DOMAIN data THEN data[key] ELSE default

(***************************************************************************)
(* Generated text.  Beside single characters a text holds member pieces:   *)
(* one piece stands for the characters of one "key": value member of a     *)
(* JSON object, which contain no brace, no backquote and no whitespace at  *)
(* either end.  Members gives the value json.loads decodes each to.        *)
(***************************************************************************)
Members ==
    <<
       [tok |-> "\"riskTier\": \"red\"",
        key |-> "riskTier", val |-> StrV(<<"r","e","d">>)],
       [tok |-> "\"riskTier\": \"GREEN\"",
        key |-> "riskTier", val |-> StrV(<<"G","R","E","E","N">>)],
       [tok |-> "\"riskTier\": \"unknown\"",
        key |-> "riskTier", val |-> StrV(<<"u","n","k","n","o","w","n">>)],
       [tok |-> "\"riskTier\": null",
        key |-> "riskTier", val |-> NoneV],
       [tok |-> "\"uncertainty\": \"low\"",
        key |-> "uncertainty", val |-> StrV(<<"l","o","w">>)],
       [tok |-> "\"uncertainty\": \"bogus\"",
        key |-> "uncertainty", val |-> StrV(<<"b","o","g","u","s">>)],
       [tok |-> "\"uncertainty\": null",
        key |-> "uncertainty", val |-> NoneV],
       [tok |-> "\"referralRecommended\": true",
        key |-> "referralRecommended", val |-> BoolV(TRUE)],
       [tok |-> "\"referralRecommended\": false",
        key |-> "referralRecommended", val |-> BoolV(FALSE)],
       [tok |-> "\"referralRecommended\": null",
        key |-> "referralRecommended", val |-> NoneV],
       [tok |-> "\"referralRecommended\": \"no\"",
        key |-> "referralRecommended", val |-> StrV(<<"n","o">>)],
       [tok |-> "\"recommendedNextSteps\": [\"Rest\"]",
        key |-> "recommendedNextSteps", val |-> ListV(<<StrV(<<"R","e","s","t">>)>>)],
       [tok |-> "\"recommendedNextSteps\": []",
        key |-> "recommendedNextSteps", val |-> ListV(<<>>)],
       [tok |-> "\"recommendedNextSteps\": null",
        key |-> "recommendedNextSteps", val |-> NoneV],
       [tok |-> "\"recommendedNextSteps\": \"ab\"",
        key |-> "recommendedNextSteps", val |-> StrV(<<"a","b">>)],
       [tok |-> "\"recommendedNextSteps\": [5]",
        key |-> "recommendedNextSteps", val |-> ListV(<<IntV(5)>>)],
       [tok |-> "\"recommendedNextSteps\": [null]",
        key |-> "recommendedNextSteps", val |-> ListV(<<NoneV>>)],
       [tok |-> "\"watchOuts\": [\"Rash\"]",
        key |-> "watchOuts", val |-> ListV(<<StrV(<<"R","a","s","h">>)>>)],
       [tok |-> "\"watchOuts\": []",
        key |-> "watchOuts", val |-> ListV(<<>>)],
       [tok |-> "\"watchOuts\": null",
        key |-> "watchOuts", val |-> NoneV],
       [tok |-> "\"dangerSigns\": [\"Bleeding\"]",
        key |-> "dangerSigns", val |-> ListV(<<StrV(<<"B","l","e","e","d","i","n","g">>)>>)],
       [tok |-> "\"dangerSigns\": 7",
        key |-> "dangerSigns", val |-> IntV(7)],
       [tok |-> "\"disclaimer\": \"Ask\"",
        key |-> "disclaimer", val |-> StrV(<<"A","s","k">>)],
       [tok |-> "\"disclaimer\": null",
        key |-> "disclaimer", val |-> NoneV],
       [tok |-> "\"reasoning\": \"Why\"",
        key |-> "reasoning", val |-> StrV(<<"W","h","y">>)],
       [tok |-> "\"reasoning\": [\"a\", 1]",
        key |-> "reasoning", val |-> ListV(<<StrV(<<"a">>), IntV(1)>>)],
       [tok |-> "\"model\": \"m\"",
        key |-> "model", val |-> StrV(<<"m">>)],
       [tok |-> "\"source\": \"s\"",
        key |-> "source", val |-> StrV(<<"s">>)],
       [tok |-> "\"questions\": [\"Q\"]",
        key |-> "questions", val |-> ListV(<<StrV(<<"Q">>)>>)]
    >>

MemberToks == {Members[i].tok : i \in DOMAIN Members}

MemberOf(tok) == Members[CHOOSE i \in DOMAIN Members : Members[i].tok = tok]

\* pieces standing for a complete JSON document that is not an object
ScalarToks == {"42", "null", "[1, 2]", "\"fine\""}

NotSpace(c) == ~IsSpace(c)

\* json.loads(text): ok is FALSE for JSONDecodeError; isDict tells whether
\* the decoded document is a dict, and data is that dict (the last of
\* several members with one key wins)
json_loads(text) ==
    LET toks == SelectSeq(text, NotSpace)
        n == Len(toks)
        inner == SubSeq(toks, 2, n - 1)
        odd == {i \in 1..Len(inner) : i % 2 = 1}
        even == {i \in 1..Len(inner) : i % 2 = 0}
        wellFormed ==
            /\ n >= 2
            /\ toks[1] = "{"
            /\ toks[n] = "}"
            /\ \/ inner = <<>>
               \/ /\ Len(inner) % 2 = 1
                  /\ \A i \in odd : inner[i] \in MemberToks
                  /\ \A i \in even : inner[i] = ","
        keys == {MemberOf(inner[i]).key : i \in odd}
        last(k) == SetMax({i \in odd : MemberOf(inner[i]).key = k})
    IN  IF n = 1 /\ toks[1] \in ScalarToks
        THEN [ok |-> TRUE, isDict |-> FALSE, data |-> <<>>]
        ELSE IF wellFormed
        THEN [ok |-> TRUE, isDict |-> TRUE,
              data |-> [k \in keys |-> MemberOf(inner[last(k)]).val]]
        ELSE [ok |-> FALSE, isDict |-> FALSE, data |-> <<>>]

(***************************************************************************)
(* Requests.  task is Optional[str]: <<>> is None, <<t>> is the string t.  *)
(* The other fields of InferRequest (age, sex, location,                   *)
(* followupResponses, riskTier, dangerSigns) are read by the prompt        *)
(* builders alone (or by nothing) and the prompt only goes into the model  *)
(* call, so a request is its symptoms and its task.                        *)
(***************************************************************************)
InferRequest(symptoms, task) == [symptoms |-> symptoms, task |-> task]

NoRequest == InferRequest(<<>>, <<>>)

TaskValues ==
    { <<>>, <<"">>, <<"triage">>, <<"normalize_intake">>,
      <<"generate_followup">>, <<"generate_referral">>, <<"summarize">> }

\* PROMPT_BUILDERS.get(task, _build_triage_prompt)
PromptBuilder(task) ==
    CASE task = "triage" -> "_build_triage_prompt"
      [] task = "normalize_intake" -> "_build_normalize_prompt"
      [] task = "generate_followup" -> "_build_followup_prompt"
      [] task = "generate_referral" -> "_build_referral_prompt"
      [] OTHER -> "_build_triage_prompt"

NoPrompt == [builder |-> "none", symptoms |-> <<>>]

\* builder(payload): the prompt is identified by its builder and the
\* symptoms rendered into it
BuildPrompt(builder, p) == [builder |-> builder, symptoms |-> p.symptoms]

TRIAGE_MAX_TOKENS == 350

OTHER_MAX_TOKENS == 250

(***************************************************************************)
(* What the collaborators do during one request: building the prompt       *)
(* raises, _run_medgemma raises (chat template, generate or decode), or    *)
(* _run_medgemma returns the decoded text.                                 *)
(***************************************************************************)
NoGen == [outcome |-> "none", text |-> <<>>]

PromptRaises == [outcome |-> "prompt_raises", text |-> <<>>]

GenerateRaises == [outcome |-> "generate_raises", text |-> <<>>]

Generated(text) == [outcome |-> "text", text |-> text]

(***************************************************************************)
(* infer                                                                   *)
(***************************************************************************)
NoResponse == [none |-> TRUE]

NoMapping == [none |-> TRUE]

\* json.loads was not reached, or raised
NotParsed == [ok |-> FALSE, isDict |-> FALSE, data |-> <<>>]

\* pydantic validation of one item of a List[str] field: a str is taken,
\* an int or bool is turned into its str by pydantic 1 and refused by
\* pydantic 2, anything else is refused
StrItem(v) ==
    CASE v.t = "str" -> [ok |-> TRUE, s |-> v.s]
      [] v.t \in {"int", "bool"} ->
            IF pydanticV2 THEN [ok |-> FALSE, s |-> <<>>]
            ELSE [ok |-> TRUE, s |-> PyStr(v)]
      [] OTHER -> [ok |-> FALSE, s |-> <<>>]

\* pydantic validation of a List[str] field
StrList(items) ==
    [ok |-> \A i \in DOMAIN items : StrItem(items[i]).ok,
     list |-> [i \in DOMAIN items |-> StrItem(items[i]).s]]

\* faulty variant: an out-of-enum risk tier is downgraded to GREEN
RepairRisk_DefaultGreen(risk) ==
    IF risk \notin {RED, YELLOW, GREEN} THEN GREEN ELSE risk

\* if risk not in {"RED", "YELLOW", "GREEN"}: risk = "YELLOW"
RepairRisk(risk) == IF risk \notin {RED, YELLOW, GREEN} THEN YELLOW ELSE risk

\* faulty variant: the out-of-enum uncertainty is passed on
RepairUncertainty_NoDefault(u) == u

\* if uncertainty not in {"LOW", "MEDIUM", "HIGH"}: uncertainty = "MEDIUM"
RepairUncertainty(u) == IF u \notin {LOW, MEDIUM, HIGH} THEN MEDIUM ELSE u

DefaultNextSteps == ListV(<< StrV(Lit("Seek medical evaluation.")) >>)

DefaultWatchOuts == ListV(<< StrV(Lit("If symptoms worsen, seek care promptly.")) >>)

DefaultReasoning == Lit("MedGemma inference completed.")

\* the triage branch of infer: exc tells that building the InferResponse
\* raised (list() of a value that is no iterable, or pydantic validation)
NormalizeTriage(data) ==
    LET risk == RepairRisk(Upper(PyStr(Get(data, "riskTier", StrV(YELLOW)))))
        uncertainty ==
            RepairUncertainty(
                Upper(PyStr(Get(data, "uncertainty", StrV(MEDIUM)))))
        referral ==
            PyBool(Get(data, "referralRecommended", BoolV(risk # GREEN)))
        steps == PyList(Get(data, "recommendedNextSteps", DefaultNextSteps))
        watch == PyList(Get(data, "watchOuts", DefaultWatchOuts))
        danger == PyList(Get(data, "dangerSigns", ListV(<<>>)))
        disclaimer == PyStr(Get(data, "disclaimer", StrV(DISCLAIMER)))
        reasoning == PyStr(Get(data, "reasoning", StrV(DefaultReasoning)))
        vsteps == StrList(steps.items)
        vwatch == StrList(watch.items)
        vdanger == StrList(danger.items)
    IN  IF /\ steps.ok /\ watch.ok /\ danger.ok
           /\ vsteps.ok /\ vwatch.ok /\ vdanger.ok
        THEN [exc |-> FALSE,
              response |->
                  InferResponse(risk, referral, vsteps.list, vwatch.list,
                                vdanger.list, uncertainty, disclaimer,
                                reasoning, MODEL_ID, KAGGLE_MEDGEMMA)]
        ELSE [exc |-> TRUE, response |-> NoResponse]

\* faulty variant: data.setdefault("source", ...), a generated source is kept
Passthrough_KeepsSource(data) ==
    [k \in DOMAIN data \cup {"model", "source"} |->
        IF k = "model" THEN StrV(MODEL_ID)
        ELSE IF k \in DOMAIN data THEN data[k]
        ELSE StrV(KAGGLE_MEDGEMMA)]

\* faulty variant: the risk tier repair is applied to the non-triage mapping too
Passthrough_RepairsRisk(data) ==
    [k \in DOMAIN data \cup {"model", "source", "riskTier"} |->
        IF k = "model" THEN StrV(MODEL_ID)
        ELSE IF k = "source" THEN StrV(KAGGLE_MEDGEMMA)
        ELSE IF k = "riskTier"
        THEN StrV(IF Upper(PyStr(Get(data, "riskTier", StrV(YELLOW))))
                        \notin {RED, YELLOW, GREEN}
                  THEN YELLOW
                  ELSE Upper(PyStr(Get(data, "riskTier", StrV(YELLOW)))))
        ELSE data[k]]

\* the non-triage branch: data["model"] = MODEL_ID;
\* data["source"] = "kaggle-medgemma"; return data
Passthrough(data) ==
    [k \in DOMAIN data \cup {"model", "source"} |->
        IF k = "model" THEN StrV(MODEL_ID)
        ELSE IF k = "source" THEN StrV(KAGGLE_MEDGEMMA)
        ELSE data[k]]

\* task = payload.task or "triage"
ResolveTask(p) ==
    IF p.task = <<>> \/ p.task = <<"">> THEN "triage" ELSE p.task[1]

\* faulty variant: the loaded flag is not consulted
Unavailable_NoLoadedCheck ==
    \/ MODEL = "None"
    \/ PROCESSOR = "None"

\* not MODEL_STATE["loaded"] or MODEL is None or PROCESSOR is None
Unavailable ==
    \/ ~MODEL_STATE.loaded
    \/ MODEL = "None"
    \/ PROCESSOR = "None"

Outcome(kind, resp, map, prm, calls, maxTok, data, exc) ==
    [returned |-> kind, response |-> resp, mapping |-> map, prompt |-> prm,
     generateCalls |-> calls, maxTokens |-> maxTok, parsed |-> data,
     exc |-> exc]

\* the body of the try statement of infer; exc tells that it raised
TryBody(p, task, builder, max_tok, env) ==
    IF env.outcome = "prompt_raises"
    THEN Outcome("none", NoResponse, NoMapping, NoPrompt, 0, 0, NotParsed,
                 TRUE)
    ELSE IF env.outcome = "generate_raises"
    THEN Outcome("none", NoResponse, NoMapping, BuildPrompt(builder, p), 1,
                 max_tok, NotParsed, TRUE)
    ELSE LET prm == BuildPrompt(builder, p)
             data == json_loads(clean_json_block(env.text))
             failed == Outcome("none", NoResponse, NoMapping, prm, 1,
                               max_tok, data, TRUE)
         IN  IF ~data.ok THEN failed
             \* data["model"] = ... and data.get(...) raise on a value
             \* that is no dict
             ELSE IF ~data.isDict THEN failed
             ELSE IF task # "triage"
             THEN Outcome("dict", NoResponse, Passthrough(data.data), prm,
                          1, max_tok, data, FALSE)
             ELSE LET norm == NormalizeTriage(data.data)
                  IN  IF norm.exc THEN failed
                      ELSE Outcome("InferResponse", norm.response, NoMapping,
                                   prm, 1, max_tok, data, FALSE)

\* faulty variant: the prompt is built before the try statement is entered
infer_PromptOutsideTry(p, env) ==
    LET task == ResolveTask(p)
    IN  IF Unavailable
        THEN Outcome("InferResponse", heuristic_fallback(p.symptoms),
                     NoMapping, NoPrompt, 0, 0, NotParsed, FALSE)
        ELSE IF env.outcome = "prompt_raises"
        THEN Outcome("none", NoResponse, NoMapping, NoPrompt, 0, 0, NotParsed,
                     TRUE)
        ELSE LET builder == PromptBuilder(task)
                 max_tok == IF task # "triage" THEN OTHER_MAX_TOKENS
                            ELSE TRIAGE_MAX_TOKENS
                 body == TryBody(p, task, builder, max_tok, env)
             IN  IF body.exc
                 THEN Outcome("InferResponse", heuristic_fallback(p.symptoms),
                              NoMapping, body.prompt, body.generateCalls,
                              body.maxTokens, body.parsed, FALSE)
                 ELSE body

\* infer(payload), with env what the collaborators do when called
infer(p, env) ==
    LET task == ResolveTask(p)
    IN  IF Unavailable
        THEN Outcome("InferResponse", heuristic_fallback(p.symptoms),
                     NoMapping, NoPrompt, 0, 0, NotParsed, FALSE)
        ELSE LET builder == PromptBuilder(task)
                 max_tok == IF task # "triage" THEN OTHER_MAX_TOKENS
                            ELSE TRIAGE_MAX_TOKENS
                 body == TryBody(p, task, builder, max_tok, env)
             IN  IF body.exc
                 \* except Exception: return _heuristic_fallback(...)
                 THEN Outcome("InferResponse", heuristic_fallback(p.symptoms),
                              NoMapping, body.prompt, body.generateCalls,
                              body.maxTokens, body.parsed, FALSE)
                 ELSE body

(***************************************************************************)
(* _load_model: what one call leaves behind.                               *)
(***************************************************************************)
ModelState(loaded, error) ==
    [loaded |-> loaded, error |-> error, model_name |-> MODEL_ID]

\* the module's globals after import
Unloaded == [state |-> ModelState(FALSE, ""), processor |-> "None", model |-> "None"]

\* "ok": both from_pretrained calls and the final print succeed;
\* "processor_failed": the import or AutoProcessor.from_pretrained raises;
\* "model_failed": AutoModelForImageTextToText.from_pretrained raises;
\* "report_failed": the print after MODEL_STATE["loaded"] = True raises
LoadOutcomes == {"ok", "processor_failed", "model_failed", "report_failed"}

load_model(how) ==
    CASE how = "ok" ->
            [state |-> ModelState(TRUE, ""), processor |-> "set", model |-> "set"]
      [] how = "processor_failed" ->
            [state |-> ModelState(FALSE, "load error"), processor |-> PROCESSOR,
             model |-> MODEL]
      [] how = "model_failed" ->
            [state |-> ModelState(FALSE, "load error"), processor |-> "set",
             model |-> MODEL]
      [] how = "report_failed" ->
            [state |-> ModelState(FALSE, "load error"), processor |-> "set",
             model |-> "set"]

(***************************************************************************)
(* Inputs.                                                                 *)
(***************************************************************************)
RECURSIVE Concat(_)
Concat(ss) == IF ss = <<>> THEN <<>> ELSE Head(ss) \o Concat(Tail(ss))

SeqsUpTo(S, n) == UNION {[1..k -> S] : k \in 0..n}

\* pieces of symptom text: every term of both lists, terms in other case,
\* parts of terms that join to a term, and words outside both lists
Fragments ==
    {
      <<"c","h","e","s","t"," ","p","a","i","n">>,
      <<"c","a","n","n","o","t"," ","b","r","e","a","t","h","e">>,
      <<"c","a","n",APOS,"t"," ","b","r","e","a","t","h","e">>,
      <<"u","n","c","o","n","s","c","i","o","u","s">>,
      <<"s","e","i","z","u","r","e">>,
      <<"c","o","n","v","u","l","s","i","o","n">>,
      <<"f","e","v","e","r">>,
      <<"v","o","m","i","t">>,
      <<"v","o","m","i","t","i","n","g">>,
      <<"p","a","i","n">>,
      <<"c","o","u","g","h">>,
      <<"w","e","a","k","n","e","s","s">>,
      <<"C","h","e","s","t"," ","P","a","i","n">>,
      <<"S","E","I","Z","U","R","E">>,
      <<"C","o","u","g","h">>,
      <<"p","a","i">>,
      <<"n">>,
      <<" ","a","n","d"," ">>,
      <<"h","e","a","d","a","c","h","e">>,
      <<"r","a","s","h">>
    }

\* symptoms: str = Field(..., min_length=1)
SymptomTexts == {Concat(fs) : fs \in SeqsUpTo(Fragments, MaxFrags) \ {<<>>}}

\* the symptoms of the requests sent to /infer: a RED text that also holds
\* a YELLOW term, a YELLOW text and a GREEN text
RequestSymptoms ==
    { <<"C","h","e","s","t"," ","P","a","i","n">> \o <<" ","a","n","d"," ">>
          \o <<"f","e","v","e","r">>,
      <<"C","o","u","g","h">>,
      <<"r","a","s","h">> }

Requests == {InferRequest(s, k) : s \in RequestSymptoms, k \in TaskValues}

\* the members of a generated object: at most MaxMembers of Members, in
\* the order of Members, no key twice
MemberChoices ==
    {f \in SeqsUpTo(DOMAIN Members, MaxMembers) :
        \A i, j \in DOMAIN f :
            i < j => /\ f[i] < f[j]
                     /\ Members[f[i]].key # Members[f[j]].key}

RECURSIVE JoinMembers(_)
JoinMembers(f) ==
    IF f = <<>> THEN <<>>
    ELSE IF Len(f) = 1 THEN <<Members[f[1]].tok>>
    ELSE <<Members[f[1]].tok, ",", " ">> \o JoinMembers(Tail(f))

\* the text of the JSON object with the members f
ObjText(f) == <<"{">> \o JoinMembers(f) \o <<"}">>

SampleObjects == {ObjText(<<>>), ObjText(<<1>>), ObjText(<<3, 29>>)}

TagJson == <<"j","s","o","n">>

Prose == <<"O","k",".">>

\* generated texts: every object text bare; sample objects inside fences,
\* with prose around them, followed by a brace or by a second object, or
\* cut short; one key twice; texts that are no JSON object at all
GeneratedTexts ==
    {ObjText(f) : f \in MemberChoices}
    \cup {FENCE \o TagJson \o <<"\n">> \o o \o <<"\n">> \o FENCE :
            o \in SampleObjects}
    \cup {FENCE \o <<"\n">> \o o \o <<"\n">> \o FENCE \o <<"\n">> \o Prose :
            o \in SampleObjects}
    \cup {Prose \o <<" ">> \o o \o <<"\n">> : o \in SampleObjects}
    \cup {o \o <<" ", ":", "}">> : o \in SampleObjects}
    \cup {o \o <<" ">> \o o : o \in SampleObjects}
    \cup {SubSeq(o, 1, Len(o) - 1) : o \in SampleObjects}
    \cup {ObjText(<<1, 2>>), ObjText(<<2, 1>>)}
    \cup {<<>>, Prose, FENCE \o FENCE}
    \cup {<<x>> : x \in ScalarToks}

GenOutcomes ==
    {PromptRaises, GenerateRaises} \cup {Generated(x) : x \in GeneratedTexts}

(***************************************************************************)
(* The server: _load_model runs at most once, from the main thread before  *)
(* the server thread is started, so never while a request is handled.      *)
(***************************************************************************)
NoArg == [none |-> TRUE]

NoResult == [done |-> FALSE, value |-> <<>>]

RequestIdle ==
    /\ pc = "idle"
    /\ payload = NoRequest
    /\ generated = NoGen
    /\ prompt = NoPrompt
    /\ generateCalls = 0
    /\ parsed = NotParsed
    /\ maxTokens = 0
    /\ returned = "none"
    /\ response = NoResponse
    /\ mapping = NoMapping
    /\ raised = FALSE

Init ==
    /\ MODEL_STATE = Unloaded.state
    /\ PROCESSOR = Unloaded.processor
    /\ MODEL = Unloaded.model
    /\ loadAttempted = FALSE
    /\ pydanticV2 \in BOOLEAN
    /\ RequestIdle
    /\ arg = NoArg
    /\ result = NoResult

LoadModel ==
    /\ pc = "idle"
    /\ ~loadAttempted
    /\ \E how \in LoadOutcomes :
          LET after == load_model(how)
          IN  /\ MODEL_STATE' = after.state
              /\ PROCESSOR' = after.processor
              /\ MODEL' = after.model
    /\ loadAttempted' = TRUE
    /\ UNCHANGED <<pydanticV2, pc, payload, generated, prompt, generateCalls,
                   parsed, maxTokens, returned, response, mapping, raised,
                   arg, result>>

\* POST /infer arrives and its body validates as an InferRequest
Receive ==
    /\ pc = "idle"
    /\ \E p \in Requests : payload' = p
    /\ pc' = "received"
    /\ UNCHANGED <<MODEL_STATE, PROCESSOR, MODEL, loadAttempted, pydanticV2,
                   generated, prompt, generateCalls, parsed, maxTokens,
                   returned, response, mapping, raised, arg, result>>

\* the handler runs; the collaborators act only if it calls them
Infer ==
    /\ pc = "received"
    /\ \E env \in (IF Unavailable THEN {NoGen} ELSE GenOutcomes) :
          \E out \in {infer(payload, env)} :
              /\ generated' = env
              /\ prompt' = out.prompt
              /\ generateCalls' = out.generateCalls
              /\ parsed' = out.parsed
              /\ maxTokens' = out.maxTokens
              /\ returned' = out.returned
              /\ response' = out.response
              /\ mapping' = out.mapping
              /\ raised' = out.exc
    /\ pc' = "responded"
    /\ UNCHANGED <<MODEL_STATE, PROCESSOR, MODEL, loadAttempted, pydanticV2,
                   payload, arg, result>>

\* the response has been sent; the server waits for the next request
Respond ==
    /\ pc = "responded"
    /\ pc' = "idle"
    /\ payload' = NoRequest
    /\ generated' = NoGen
    /\ prompt' = NoPrompt
    /\ generateCalls' = 0
    /\ parsed' = NotParsed
    /\ maxTokens' = 0
    /\ returned' = "none"
    /\ response' = NoResponse
    /\ mapping' = NoMapping
    /\ raised' = FALSE
    /\ UNCHANGED <<MODEL_STATE, PROCESSOR, MODEL, loadAttempted, pydanticV2,
                   arg, result>>

Next == LoadModel \/ Receive \/ Infer \/ Respond

Spec == Init /\ [][Next]_vars

(***************************************************************************)
(* _heuristic_fallback applied directly: the input is any symptom text,    *)
(* and the module's globals are in any state _load_model can leave.        *)
(***************************************************************************)
InitFallback ==
    /\ \E how \in LoadOutcomes \cup {"never"} :
          LET g == IF how = "never" THEN Unloaded
                   ELSE [state |-> ModelState(how = "ok", IF how = "ok" THEN "" ELSE "load error"),
                         processor |-> IF how = "processor_failed" THEN "None" ELSE "set",
                         model |-> IF how \in {"ok", "report_failed"} THEN "set" ELSE "None"]
          IN  /\ MODEL_STATE = g.state
              /\ PROCESSOR = g.processor
              /\ MODEL = g.model
              /\ loadAttempted = (how # "never")
    /\ pydanticV2 \in BOOLEAN
    /\ RequestIdle
    /\ arg \in {[symptoms |-> s] : s \in SymptomTexts}
    /\ result = NoResult

ApplyFallback ==
    /\ ~result.done
    /\ result' = [done |-> TRUE, value |-> heuristic_fallback(arg.symptoms)]
    /\ UNCHANGED <<MODEL_STATE, PROCESSOR, MODEL, loadAttempted, pydanticV2,
                   pc, payload, generated, prompt, generateCalls, parsed,
                   maxTokens, returned, response, mapping, raised, arg>>

SpecFallback == InitFallback /\ [][ApplyFallback]_vars

(***************************************************************************)
(* _clean_json_block applied directly.  The input is either an object      *)
(* text between an opening fence (bare or tagged json in some case) and a  *)
(* closing fence followed by any prose of at most MaxProse characters, or  *)
(* any text of at most MaxRaw characters.                                  *)
(***************************************************************************)
ProseChars == {"x", " ", "\n", "{", "}", BQ}

RawChars == {"x", " ", "{", "}", BQ}

Openers ==
    { FENCE \o <<"\n">>,
      FENCE \o TagJson \o <<"\n">>,
      FENCE \o TagJson,
      FENCE \o <<"J","S","O","N">> \o <<"\n">>,
      FENCE \o <<"J","s","o","n">> \o <<" ", "\n">>,
      <<" ", "\n">> \o FENCE \o TagJson \o <<"\n">> }

EmbeddedObjects == {ObjText(<<>>), ObjText(<<1, 5>>)}

FencedInput(opener, obj, gap, prose) ==
    [fenced |-> TRUE, object |-> obj, prose |-> prose,
     text |-> opener \o obj \o gap \o FENCE \o prose]

RawInput(text) ==
    [fenced |-> FALSE, object |-> <<>>, prose |-> <<>>, text |-> text]

ExtractInputs ==
    {FencedInput(o, j, g, p) :
        o \in Openers, j \in EmbeddedObjects, g \in {<<>>, <<"\n">>},
        p \in SeqsUpTo(ProseChars, MaxProse)}
    \cup {RawInput(x) : x \in SeqsUpTo(RawChars, MaxRaw)}

InitExtract ==
    /\ MODEL_STATE = Unloaded.state
    /\ PROCESSOR = Unloaded.processor
    /\ MODEL = Unloaded.model
    /\ loadAttempted = FALSE
    /\ pydanticV2 \in BOOLEAN
    /\ RequestIdle
    /\ arg \in ExtractInputs
    /\ result = NoResult

ApplyExtract ==
    /\ ~result.done
    /\ result' = [done |-> TRUE, value |-> clean_json_block(arg.text)]
    /\ UNCHANGED <<MODEL_STATE, PROCESSOR, MODEL, loadAttempted, pydanticV2,
                   pc, payload, generated, prompt, generateCalls, parsed,
                   maxTokens, returned, response, mapping, raised, arg>>

SpecExtract == InitExtract /\ [][ApplyExtract]_vars

(***************************************************************************)
(* Properties.                                                             *)
(***************************************************************************)
Responded == pc = "responded"

\* the model, as infer finds it when it tests availability
Available == MODEL_STATE.loaded /\ MODEL = "set" /\ PROCESSOR = "set"

TaskIsTriage == ResolveTask(payload) = "triage"

ParsedObject ==
    /\ Available
    /\ generated.outcome = "text"
    /\ parsed.ok
    /\ parsed.isDict

\* some step of the model path failed
ModelPathFailed ==
    /\ Available
    /\ \/ generated.outcome \in {"prompt_raises", "generate_raises"}
       \/ /\ generated.outcome = "text"
          /\ \/ ~parsed.ok
             \/ ~parsed.isDict
             \/ TaskIsTriage /\ NormalizeTriage(parsed.data).exc

\* every step of the model path succeeded
ModelPathSucceeded ==
    /\ ParsedObject
    /\ TaskIsTriage => ~NormalizeTriage(parsed.data).exc

TenFields ==
    {"riskTier", "referralRecommended", "recommendedNextSteps", "watchOuts",
     "dangerSigns", "uncertainty", "disclaimer", "reasoning", "model",
     "source"}

\* C1: every response to a triage request (task "triage", absent or
\* empty), on whatever path, is an InferResponse with all ten fields,
\* riskTier in {RED, YELLOW, GREEN} and uncertainty in {LOW, MEDIUM, HIGH},
\* and nothing is raised.
C1_TriageSchemaValid ==
    (Responded /\ TaskIsTriage) =>
        /\ ~raised
        /\ returned = "InferResponse"
        /\ DOMAIN response = TenFields
        /\ response.riskTier \in {RED, YELLOW, GREEN}
        /\ response.uncertainty \in {LOW, MEDIUM, HIGH}
        /\ response.referralRecommended \in BOOLEAN

\* C1 witness: a triage response built from a generated object whose
\* uncertainty is outside the enum.
C1_Witness ==
    /\ Responded
    /\ TaskIsTriage
    /\ ModelPathSucceeded
    /\ "uncertainty" \in DOMAIN parsed.data
    /\ Upper(PyStr(parsed.data["uncertainty"])) \notin {LOW, MEDIUM, HIGH}
    /\ response.uncertainty = MEDIUM
    /\ response.source = KAGGLE_MEDGEMMA

\* C2: when a step of the model path fails (the prompt builder or
\* _run_medgemma raises, the extracted text does not decode, the decoded
\* value is no dict, or building the InferResponse raises), for any task,
\* infer raises nothing and returns the heuristic fallback of the
\* request's symptoms.
C2_FailureContained ==
    (Responded /\ ModelPathFailed) =>
        /\ ~raised
        /\ returned = "InferResponse"
        /\ response = heuristic_fallback(payload.symptoms)

\* C2 witness: a non-triage request whose generated text does not decode,
\* answered with the RED fallback of its symptoms.
C2_Witness ==
    /\ Responded
    /\ ~TaskIsTriage
    /\ Available
    /\ generated.outcome = "text"
    /\ ~parsed.ok
    /\ returned = "InferResponse"
    /\ response = FallbackRed

\* C3: when the loaded flag is false or MODEL or PROCESSOR is None, infer
\* returns the heuristic fallback of the symptoms for every task, builds no
\* prompt and never calls _run_medgemma.
C3_UnavailableFallback ==
    (Responded /\ (~MODEL_STATE.loaded \/ MODEL = "None" \/ PROCESSOR = "None")) =>
        /\ ~raised
        /\ returned = "InferResponse"
        /\ response = heuristic_fallback(payload.symptoms)
        /\ prompt = NoPrompt
        /\ generateCalls = 0
        /\ generated = NoGen

\* C3 witness: both objects are set but the loaded flag is false, and a
\* non-triage request is answered by the fallback.
C3_Witness ==
    /\ Responded
    /\ ~MODEL_STATE.loaded
    /\ MODEL = "set"
    /\ PROCESSOR = "set"
    /\ ~TaskIsTriage
    /\ returned = "InferResponse"
    /\ response.source = KAGGLE_HEURISTIC
    /\ generateCalls = 0

\* C4: in every response to a triage request recommendedNextSteps and
\* watchOuts are non-empty.
C4_NeverEmpty ==
    (Responded /\ TaskIsTriage /\ returned = "InferResponse") =>
        /\ response.recommendedNextSteps # <<>>
        /\ response.watchOuts # <<>>

C6_FallbackPrecedence ==
    result.done =>
        LET s == Lower(arg.symptoms)
            red == \E i \in DOMAIN red_terms : Contains(s, red_terms[i])
            yellow == \E i \in DOMAIN yellow_terms : Contains(s, yellow_terms[i])
            r == result.value
        IN  /\ red =>
                /\ r.riskTier = RED
                /\ r.referralRecommended = TRUE
                /\ r.uncertainty = LOW
                /\ r.dangerSigns # <<>>
                /\ r = FallbackRed
            /\ (~red /\ yellow) =>
                /\ r.riskTier = YELLOW
                /\ r.referralRecommended = TRUE
                /\ r.uncertainty = MEDIUM
                /\ r.dangerSigns = <<>>
                /\ r = FallbackYellow
            /\ (~red /\ ~yellow) =>
                /\ r.riskTier = GREEN
                /\ r.referralRecommended = FALSE
                /\ r.uncertainty = MEDIUM
                /\ r = FallbackGreen

\* C6 witness: a text in upper case holding a RED term and, apart from it,
\* a YELLOW term, classified RED.
C6_Witness ==
    /\ result.done
    /\ arg.symptoms # Lower(arg.symptoms)
    /\ Contains(Lower(arg.symptoms), <<"s","e","i","z","u","r","e">>)
    /\ Contains(Lower(arg.symptoms), <<"f","e","v","e","r">>)
    /\ result.value.riskTier = RED

\* C7: for a triage request whose extracted text decodes to a JSON object,
\* the response is the normalised model-sourced response, never the
\* fallback.
C7_RepairNeverFallsBack ==
    (Responded /\ TaskIsTriage /\ ParsedObject) =>
        /\ returned = "InferResponse"
        /\ response.source = KAGGLE_MEDGEMMA

\* C8: in a normalised (model-sourced) triage response, riskTier is the
\* upper-cased generated value when that is RED, YELLOW or GREEN and YELLOW
\* otherwise, so GREEN only when the model said green; uncertainty is the
\* upper-cased value when in {LOW, MEDIUM, HIGH} and MEDIUM otherwise; an
\* absent referralRecommended becomes (riskTier # GREEN); absent
\* recommendedNextSteps, watchOuts, dangerSigns, disclaimer and reasoning
\* become their fixed defaults.
C8_NormalizerDefaults ==
    (Responded /\ TaskIsTriage /\ ModelPathSucceeded) =>
        LET data == parsed.data
            has(k) == k \in DOMAIN data
            up(k) == Upper(PyStr(data[k]))
        IN  /\ returned = "InferResponse"
            /\ response.riskTier =
                  (IF has("riskTier") /\ up("riskTier") \in {RED, YELLOW, GREEN}
                   THEN up("riskTier") ELSE YELLOW)
            /\ response.riskTier = GREEN =>
                  has("riskTier") /\ Lower(PyStr(data["riskTier"])) = <<"g","r","e","e","n">>
            /\ response.uncertainty =
                  (IF has("uncertainty") /\ up("uncertainty") \in {LOW, MEDIUM, HIGH}
                   THEN up("uncertainty") ELSE MEDIUM)
            /\ ~has("referralRecommended") =>
                  response.referralRecommended = (response.riskTier # GREEN)
            /\ ~has("recommendedNextSteps") =>
                  response.recommendedNextSteps = << Lit("Seek medical evaluation.") >>
            /\ ~has("watchOuts") =>
                  response.watchOuts = << Lit("If symptoms worsen, seek care promptly.") >>
            /\ ~has("dangerSigns") => response.dangerSigns = <<>>
            /\ ~has("disclaimer") =>
                  response.disclaimer = Lit("This is not a diagnosis. Seek professional medical care.")
            /\ ~has("reasoning") =>
                  response.reasoning = Lit("MedGemma inference completed.")

\* C8 witness: the generated object is {"riskTier": "unknown"} and the
\* response is YELLOW with every other field at its default.
C8_Witness ==
    /\ Responded
    /\ TaskIsTriage
    /\ ModelPathSucceeded
    /\ DOMAIN parsed.data = {"riskTier"}
    /\ parsed.data["riskTier"] = StrV(<<"u","n","k","n","o","w","n">>)
    /\ response.riskTier = YELLOW
    /\ response.referralRecommended = TRUE
    /\ response.uncertainty = MEDIUM
    /\ response.dangerSigns = <<>>
    /\ Len(response.recommendedNextSteps) = 1
    /\ Len(response.watchOuts) = 1

\* C9: for a task that resolves to something other than "triage" and a
\* generated text that decodes to a JSON object, infer returns the decoded
\* mapping with model and source set by infer, whatever model or source
\* the object held, every other key and value unchanged and no key added;
\* and in a triage response made from model output, model and source are
\* the ones infer sets as well.
C9_PassthroughFrame ==
    (Responded /\ ParsedObject) =>
        LET data == parsed.data
        IN  /\ ~TaskIsTriage =>
                /\ returned = "dict"
                /\ DOMAIN mapping = DOMAIN data \cup {"model", "source"}
                /\ mapping["model"] = StrV(MODEL_ID)
                /\ mapping["source"] = StrV(KAGGLE_MEDGEMMA)
                /\ \A k \in DOMAIN data \ {"model", "source"} :
                      mapping[k] = data[k]
            /\ (TaskIsTriage /\ ModelPathSucceeded) =>
                /\ returned = "InferResponse"
                /\ response.model = MODEL_ID
                /\ response.source = KAGGLE_MEDGEMMA

\* C9 witness: a non-triage mapping whose generated object held a model of
\* its own and an out-of-enum riskTier, which is returned as generated.
C9_Witness ==
    /\ Responded
    /\ ~TaskIsTriage
    /\ returned = "dict"
    /\ DOMAIN parsed.data = {"riskTier", "model"}
    /\ parsed.data["model"] # StrV(MODEL_ID)
    /\ mapping["model"] = StrV(MODEL_ID)
    /\ mapping["riskTier"] = StrV(<<"u","n","k","n","o","w","n">>)

\* the first "{" and the last "}" of a text
FirstOpen(t) == SetMin({i \in 1..Len(t) : t[i] = "{"})

LastClose(t) == SetMax({i \in 1..Len(t) : t[i] = "}"})

HasBraces(t) ==
    /\ \E i \in 1..Len(t) : t[i] = "{"
    /\ \E i \in 1..Len(t) : t[i] = "}"
    /\ FirstOpen(t) < LastClose(t)

====
